---- MODULE Spec2Model ----
(***************************************************************************)
(* A model of internal/tooth of lip: archive ingestion (MakeArchive and    *)
(* populateMetadataFilePlaceWildcards, archive.go), the installed-package  *)
(* registry (GetAllMetadata, utils.go) and version resolution              *)
(* (GetAvailableVersions, GetLatestStableVersion, utils.go).               *)
(*                                                                         *)
(* Strings are sequences of characters, each character a one-element TLA+  *)
(* string.  Two characters stand for longer runs of text whose inside no   *)
(* operation of the program looks at: "tooth.json" (the manifest's file    *)
(* name) and "LONG" (a run of MaxScanTokenSize bytes without a newline).   *)
(***************************************************************************)
EXTENDS Integers, Sequences, FiniteSets, TLC

VARIABLES
    pc,                   \* position of the running operation
    \* ---- MakeArchive
    zipFile,              \* r.File: the entry names of the zip, in order
    toothJSONContent,     \* the bytes of the manifest entry of the zip
    assetArchiveFilePath, \* the second argument of MakeArchive (a Path)
    r,                    \* the zip handle: "unopened", "open", "closed"
    toothJSONFileReader,  \* the manifest reader: "unopened", "open", "closed"
    deferStack,           \* the deferred calls of MakeArchive, last first
    closeLog,             \* the order in which resources were closed
    filePaths,            \* zip.GetFilePaths(r), also the candidates of a resolution
    filePathRoot,         \* the inferred package root
    toothJSONFile,        \* index in zipFile of the manifest entry, 0 for nil
    metadata,             \* the parsed Metadata
    archRet,              \* what MakeArchive returned
    \* ---- populateMetadataFilePlaceWildcards called on its own
    placeRet,
    \* ---- GetAvailableVersions / GetLatestStableVersion
    content,              \* the fetched response: a sequence of lines
    scanPos,              \* lines consumed by the scanner so far
    versionList,
    versionsRet,          \* what GetAvailableVersions returned
    stableRet,            \* what GetLatestStableVersion returned
    \* ---- GetAllMetadata
    metadataDir,          \* the *.json files of the metadata directory, in Glob order
    fileIdx,              \* files consumed by the loop so far
    metadataList,
    parseFailed,          \* whether MakeMetadata returned an error in this call
    listRet,              \* what GetAllMetadata returned
    prevListRet           \* what the previous call of GetAllMetadata returned

vars == <<pc, zipFile, toothJSONContent, assetArchiveFilePath, r, toothJSONFileReader,
          deferStack, closeLog, filePaths, filePathRoot, toothJSONFile, metadata,
          archRet, placeRet, content, scanPos, versionList, versionsRet, stableRet,
          metadataDir, fileIdx, metadataList, parseFailed, listRet, prevListRet>>

archiveVars == <<zipFile, toothJSONContent, assetArchiveFilePath, r, toothJSONFileReader,
                 deferStack, closeLog, filePathRoot, toothJSONFile, archRet>>
versionVars == <<content, scanPos, versionList, versionsRet, stableRet>>
registryVars == <<metadataDir, fileIdx, metadataList, parseFailed, listRet, prevListRet>>

(***************************************************************************)
(* Bounds of the model.                                                    *)
(***************************************************************************)
MaxRules == 2    \* placement rules of a manifest resolved on its own
MaxCands == 3    \* candidate paths of a resolution on its own
MaxFiles == 2    \* entries of a zip archive
MaxPlace == 1    \* placement rules of the manifest inside a zip archive
MaxLines == 3    \* lines of a version-index response
MaxStored == 3   \* files of the metadata directory

RECURSIVE SeqsUpTo(_, _)
SeqsUpTo(S, n) ==
    IF n = 0 THEN {<<>>}
    ELSE LET shorter == SeqsUpTo(S, n - 1)
         IN  shorter \cup {Append(s, x) : s \in shorter, x \in S}

(***************************************************************************)
(* package strings of the Go library, on sequences of characters.          *)
(***************************************************************************)
strings_HasSuffix(s, suffix) ==
    /\ Len(suffix) <= Len(s)
    /\ SubSeq(s, Len(s) - Len(suffix) + 1, Len(s)) = suffix

strings_TrimSuffix(s, suffix) ==
    IF strings_HasSuffix(s, suffix) THEN SubSeq(s, 1, Len(s) - Len(suffix)) ELSE s

strings_HasPrefix(s, prefix) ==
    /\ Len(prefix) <= Len(s)
    /\ SubSeq(s, 1, Len(prefix)) = prefix

strings_TrimPrefix(s, prefix) ==
    IF strings_HasPrefix(s, prefix) THEN SubSeq(s, Len(prefix) + 1, Len(s)) ELSE s

\* strings.Split / strings.SplitN(s, sep, n) for a one-character separator;
\* n = 0 stands for "no limit".
RECURSIVE strings_SplitN(_, _, _)
strings_SplitN(s, sep, n) ==
    IF n = 1 \/ \A i \in 1..Len(s) : s[i] # sep THEN <<s>>
    ELSE LET i == CHOOSE k \in 1..Len(s) :
                      s[k] = sep /\ \A j \in 1..(k - 1) : s[j] # sep
         IN  <<SubSeq(s, 1, i - 1)>> \o
             strings_SplitN(SubSeq(s, i + 1, Len(s)), sep, IF n = 0 THEN 0 ELSE n - 1)

strings_Split(s, sep) == strings_SplitN(s, sep, 0)

(***************************************************************************)
(* internal/path: a Path is a sequence of path items, each a non-empty     *)
(* sequence of characters.                                                 *)
(***************************************************************************)
STAR == <<"*">>
TOOTH_JSON == <<"tooth.json">>

path_MakeEmpty == <<>>

path_IsEmpty(p) == Len(p) = 0

NonEmptyItem(item) == item # <<>>

\* Parse splits at the separators, drops the empty items and refuses a
\* string that holds a character no path may hold (here "?").
path_Parse(s) ==
    IF \E i \in 1..Len(s) : s[i] = "?"
    THEN [err |-> TRUE, path |-> <<>>]
    ELSE [err |-> FALSE, path |-> SelectSeq(strings_Split(s, "/"), NonEmptyItem)]

path_MustParse(s) == path_Parse(s).path

RECURSIVE path_String(_)
path_String(p) ==
    IF Len(p) = 0 THEN <<>>
    ELSE IF Len(p) = 1 THEN p[1]
    ELSE p[1] \o <<"/">> \o path_String(Tail(p))

path_HasPrefix(p, prefix) ==
    /\ Len(prefix) <= Len(p)
    /\ SubSeq(p, 1, Len(prefix)) = prefix

path_TrimPrefix(p, prefix) ==
    IF path_HasPrefix(p, prefix) THEN SubSeq(p, Len(prefix) + 1, Len(p)) ELSE p

path_Join(p, q) == p \o q

path_Dir(p) ==
    IF Len(p) = 0 THEN [err |-> TRUE, path |-> <<>>]
    ELSE [err |-> FALSE, path |-> SubSeq(p, 1, Len(p) - 1)]

\* The longest common prefix of two paths, item by item.
RECURSIVE extractLongestCommonPath(_, _)
extractLongestCommonPath(p, q) ==
    IF Len(p) = 0 \/ Len(q) = 0 \/ p[1] # q[1] THEN <<>>
    ELSE <<p[1]>> \o extractLongestCommonPath(Tail(p), Tail(q))

RECURSIVE foldLongestCommonPath(_, _)
foldLongestCommonPath(acc, paths) ==
    IF Len(paths) = 0 THEN acc
    ELSE foldLongestCommonPath(extractLongestCommonPath(acc, paths[1]), Tail(paths))

path_ExtractLongestCommonPath(paths) ==
    IF Len(paths) = 0 THEN path_MakeEmpty
    ELSE foldLongestCommonPath(paths[1], Tail(paths))

(***************************************************************************)
(* populateMetadataFilePlaceWildcards, archive.go:132-173.                 *)
(***************************************************************************)
\* C1 mutant: the inner loop without its HasPrefix test.
RECURSIVE expandFilePaths_NoPrefixTest(_, _, _, _)
expandFilePaths_NoPrefixTest(paths, i, sourcePathPrefix, destPathPrefix) ==
    IF i > Len(paths) THEN <<>>
    ELSE <<[Src |-> path_String(paths[i]),
            Dest |-> path_String(path_Join(destPathPrefix,
                         path_TrimPrefix(paths[i], sourcePathPrefix)))]>>
         \o expandFilePaths_NoPrefixTest(paths, i + 1, sourcePathPrefix, destPathPrefix)

\* C2 mutant: the rule's source is the path relative to the prefix.
RECURSIVE expandFilePaths_RelSrc(_, _, _, _)
expandFilePaths_RelSrc(paths, i, sourcePathPrefix, destPathPrefix) ==
    IF i > Len(paths) THEN <<>>
    ELSE LET filePath == paths[i]
             relFilePath == path_TrimPrefix(filePath, sourcePathPrefix)
         IN  (IF ~path_HasPrefix(filePath, sourcePathPrefix) THEN <<>>
              ELSE <<[Src |-> path_String(relFilePath),
                      Dest |-> path_String(path_Join(destPathPrefix, relFilePath))]>>)
             \o expandFilePaths_RelSrc(paths, i + 1, sourcePathPrefix, destPathPrefix)

\* The inner loop, lines 154-165: the rules one wildcard rule appends.
RECURSIVE expandFilePaths(_, _, _, _)
expandFilePaths(paths, i, sourcePathPrefix, destPathPrefix) ==
    IF i > Len(paths) THEN <<>>
    ELSE LET filePath == paths[i]
             relFilePath == path_TrimPrefix(filePath, sourcePathPrefix)
         IN  (IF ~path_HasPrefix(filePath, sourcePathPrefix) THEN <<>>
              ELSE <<[Src |-> path_String(filePath),
                      Dest |-> path_String(path_Join(destPathPrefix, relFilePath))]>>)
             \o expandFilePaths(paths, i + 1, sourcePathPrefix, destPathPrefix)

\* Lines 139-142: a rule without a trailing wildcard is appended as it is.
appendPlain(newPlace, placeItem) == Append(newPlace, placeItem)

\* The outer loop, lines 137-166, from rule i on.
RECURSIVE placeLoop(_, _, _, _)
placeLoop(place, i, paths, newPlace) ==
    IF i > Len(place) THEN [err |-> "nil", place |-> newPlace]
    ELSE LET placeItem == place[i] IN
         IF ~strings_HasSuffix(placeItem.Src, STAR)
         THEN placeLoop(place, i + 1, paths, appendPlain(newPlace, placeItem))
         ELSE LET sourcePathPrefix == path_Parse(strings_TrimSuffix(placeItem.Src, STAR))
                  destPathPrefix == path_Parse(placeItem.Dest)
              IN  IF sourcePathPrefix.err \/ destPathPrefix.err
                  THEN [err |-> "PathParseError", place |-> <<>>]
                  ELSE placeLoop(place, i + 1, paths,
                           newPlace \o expandFilePaths(paths, 1, sourcePathPrefix.path,
                                                       destPathPrefix.path))

\* The Metadata returned is the argument with Files.Place replaced.
populateMetadataFilePlaceWildcards(md, paths) ==
    LET res == placeLoop(md.Place, 1, paths, <<>>)
    IN  IF res.err # "nil" THEN [err |-> res.err, metadata |-> [ToothRepoPath |-> <<>>, AssetURL |-> <<>>, Place |-> <<>>]]
        ELSE [err |-> "nil", metadata |-> [md EXCEPT !.Place = res.place]]

(***************************************************************************)
(* Inputs.                                                                 *)
(***************************************************************************)
OUT == <<"o">>
\* Placement rules: wildcard rules, plain rules, a wildcard that is not
\* trailing, and rules whose source prefix or destination does not parse.
RuleSet ==
    { [Src |-> <<"a", "/", "*">>, Dest |-> OUT],
      [Src |-> <<"*">>, Dest |-> <<"o", "/", "p">>],
      [Src |-> <<"b", "*">>, Dest |-> <<>>],
      [Src |-> <<"c">>, Dest |-> OUT],
      [Src |-> <<"*", "a">>, Dest |-> OUT],
      [Src |-> <<"?", "*">>, Dest |-> OUT],
      [Src |-> <<"a", "/", "*">>, Dest |-> <<"?">>] }

CandidateSet ==
    { path_MustParse(<<"a", "/", "x">>),
      path_MustParse(<<"a", "/", "a", "/", "x">>),
      path_MustParse(<<"b">>),
      path_MustParse(<<"a">>) }

EmptyMetadata == [ToothRepoPath |-> <<>>, AssetURL |-> <<>>, Place |-> <<>>]
NoArchive == [metadata |-> EmptyMetadata, assetArchiveFilePath |-> <<>>,
              assetArchiveFilePathRoot |-> <<>>]

ArchiveIdle ==
    /\ zipFile = <<>>
    /\ toothJSONContent = [wellFormed |-> FALSE, metadata |-> EmptyMetadata]
    /\ assetArchiveFilePath = <<>>
    /\ r = "unopened"
    /\ toothJSONFileReader = "unopened"
    /\ deferStack = <<>>
    /\ closeLog = <<>>
    /\ filePathRoot = <<>>
    /\ toothJSONFile = 0
    /\ archRet = [err |-> "none", archive |-> NoArchive]

VersionsIdle ==
    /\ content = <<>>
    /\ scanPos = 0
    /\ versionList = <<>>
    /\ versionsRet = [err |-> "none", versions |-> <<>>]
    /\ stableRet = [err |-> "none", version |-> <<>>]

RegistryIdle ==
    /\ metadataDir = <<>>
    /\ fileIdx = 0
    /\ metadataList = <<>>
    /\ parseFailed = FALSE
    /\ listRet = [err |-> "none", list |-> <<>>]
    /\ prevListRet = [err |-> "none", list |-> <<>>]

(***************************************************************************)
(* SpecResolve: populateMetadataFilePlaceWildcards on every rule list and  *)
(* candidate list of the bounds.                                           *)
(***************************************************************************)
InitResolve ==
    /\ pc = "resolve"
    /\ metadata \in {[ToothRepoPath |-> <<"a">>, AssetURL |-> <<>>, Place |-> p] :
                        p \in SeqsUpTo(RuleSet, MaxRules)}
    /\ filePaths \in SeqsUpTo(CandidateSet, MaxCands)
    /\ placeRet = [err |-> "none", metadata |-> EmptyMetadata]
    /\ ArchiveIdle /\ VersionsIdle /\ RegistryIdle

ResolvePlacement ==
    /\ pc = "resolve"
    /\ placeRet' = populateMetadataFilePlaceWildcards(metadata, filePaths)
    /\ pc' = "resolved"
    /\ UNCHANGED <<metadata, filePaths, archiveVars, versionVars, registryVars>>

NextResolve == ResolvePlacement

SpecResolve == InitResolve /\ [][NextResolve]_vars

(***************************************************************************)
(* Claims about the resolution of wildcards.                               *)
(***************************************************************************)
IsWildcard(rule) == Len(rule.Src) > 0 /\ rule.Src[Len(rule.Src)] = "*"

SourcePrefixOf(rule) == path_MustParse(SubSeq(rule.Src, 1, Len(rule.Src) - 1))

RuleParses(rule) ==
    /\ ~path_Parse(SubSeq(rule.Src, 1, Len(rule.Src) - 1)).err
    /\ ~path_Parse(rule.Dest).err

\* The candidates, in candidate order, that have the rule's prefix.
MatchesOf(rule, cands) ==
    SelectSeq(cands, LAMBDA c : /\ Len(SourcePrefixOf(rule)) <= Len(c)
                                /\ \A k \in 1..Len(SourcePrefixOf(rule)) :
                                       c[k] = SourcePrefixOf(rule)[k])

\* What the claim says one rule contributes.
ContributionOf(rule, cands) ==
    IF ~IsWildcard(rule) THEN <<rule>>
    ELSE LET m == MatchesOf(rule, cands)
             n == Len(SourcePrefixOf(rule))
         IN  [k \in 1..Len(m) |->
                 [Src |-> path_String(m[k]),
                  Dest |-> path_String(path_MustParse(rule.Dest)
                                       \o SubSeq(m[k], n + 1, Len(m[k])))]]

RECURSIVE ExpectedPlace(_, _)
ExpectedPlace(rules, cands) ==
    IF Len(rules) = 0 THEN <<>>
    ELSE ContributionOf(rules[1], cands) \o ExpectedPlace(Tail(rules), cands)

\* C1: the resolution of a rule list against a candidate list is the
\* concatenation, in rule order, of each rule's contribution: the rule itself
\* when its Src does not end in "*", else one rule {candidate, destPrefix
\* joined with candidate minus sourcePrefix} per candidate, in candidate
\* order, that has the source prefix.  Candidates without the prefix give no
\* rule, and the resolution fails only when a wildcard rule's prefix or
\* destination does not parse, never because a wildcard matches nothing.
C1_Resolution ==
    pc = "resolved" =>
        /\ placeRet.err = "nil" <=>
               \A j \in 1..Len(metadata.Place) :
                   IsWildcard(metadata.Place[j]) => RuleParses(metadata.Place[j])
        /\ placeRet.err = "nil" =>
               placeRet.metadata.Place = ExpectedPlace(metadata.Place, filePaths)

\* C1 witness: a resolution that succeeded with a wildcard rule matching two
\* candidates and missing a third, next to a wildcard rule matching nothing.
C1_Witness ==
    /\ pc = "resolved"
    /\ placeRet.err = "nil"
    /\ metadata.Place = <<[Src |-> <<"a", "/", "*">>, Dest |-> OUT],
                          [Src |-> <<"b", "*">>, Dest |-> <<>>]>>
    /\ filePaths = <<path_MustParse(<<"a", "/", "x">>),
                     path_MustParse(<<"a", "/", "a", "/", "x">>),
                     path_MustParse(<<"a">>)>>
    /\ Len(placeRet.metadata.Place) = 3

(***************************************************************************)
(* MakeArchive, archive.go:22-113, one action per step of the function.    *)
(***************************************************************************)
\* The first argument of MakeArchive.
archiveFilePath == <<<<"t", ".", "z">>>>

\* internal/zip GetFilePaths: every entry name parsed as a Path, in entry
\* order; the first name that does not parse fails the call.
zip_GetFilePaths(files) ==
    IF \E i \in 1..Len(files) : path_Parse(files[i]).err
    THEN [err |-> TRUE, paths |-> <<>>]
    ELSE [err |-> FALSE, paths |-> [i \in 1..Len(files) |-> path_Parse(files[i]).path]]

\* MakeMetadata: the manifest bytes parsed and validated.
MakeMetadata(bytes) ==
    IF bytes.wellFormed THEN [err |-> FALSE, metadata |-> bytes.metadata]
    ELSE [err |-> TRUE, metadata |-> EmptyMetadata]

\* C10 mutant: deferred calls run in the order they were registered.
pushDefer_Fifo(stack, call) == Append(stack, call)

\* A defer statement (lines 27, 61): the call goes on top of the stack.
pushDefer(stack, call) == <<call>> \o stack

\* C5 mutant: the single-entry special case is missing.
inferRoot_NoSingleCase(paths) ==
    [err |-> FALSE, path |-> path_ExtractLongestCommonPath(paths)]

\* Lines 34-41: the package root.
inferRoot(paths) ==
    LET lcp == path_ExtractLongestCommonPath(paths)
    IN  IF Len(paths) = 1 THEN path_Dir(lcp) ELSE [err |-> FALSE, path |-> lcp]

\* Lines 44-51: the first entry named root/tooth.json, 0 when there is none.
findToothJSON(files, root) ==
    LET toothJSONFilePath == path_Join(root, path_MustParse(TOOTH_JSON))
        hits == {i \in 1..Len(files) : files[i] = path_String(toothJSONFilePath)}
    IN  IF hits = {} THEN 0 ELSE CHOOSE i \in hits : \A j \in hits : i <= j

\* C3 mutant: only one of the two inconsistent combinations is refused.
assetMismatch_OneSided(md, assetPath) ==
    md.AssetURL = <<>> /\ ~path_IsEmpty(assetPath)

\* Lines 74-75: the condition of the ConfigMismatch return.
assetMismatch(md, assetPath) ==
    \/ (md.AssetURL = <<>> /\ ~path_IsEmpty(assetPath))
    \/ (md.AssetURL # <<>> /\ path_IsEmpty(assetPath))

\* C4 mutant: the external-asset result keeps the computed root.
externalArchive_KeepsRoot(md, assetPath, root) ==
    [metadata |-> md, assetArchiveFilePath |-> assetPath,
     assetArchiveFilePathRoot |-> root]

\* Lines 107-111: the Archive of the external-asset branch.
externalArchive(md, assetPath, root) ==
    [metadata |-> md, assetArchiveFilePath |-> assetPath,
     assetArchiveFilePathRoot |-> path_MakeEmpty]

\* Lines 94-98: the Archive of the self-contained branch.
selfContainedArchive(md, root) ==
    [metadata |-> md, assetArchiveFilePath |-> archiveFilePath,
     assetArchiveFilePathRoot |-> root]

\* Lines 83-86: every file path with the root trimmed.
filePathsTrimmed(paths, root) ==
    [i \in 1..Len(paths) |-> path_TrimPrefix(paths[i], root)]

EntryNames ==
    { TOOTH_JSON,
      <<"a", "/", "tooth.json">>,
      <<"a", "/", "x">>,
      <<"b">>,
      <<"a", "/", "/", "tooth.json">>,
      <<"/">>,
      <<"?">> }

ArchiveRuleSet ==
    { [Src |-> <<"a", "/", "*">>, Dest |-> OUT],
      [Src |-> <<"*">>, Dest |-> <<"o", "/", "p">>],
      [Src |-> <<"c">>, Dest |-> OUT],
      [Src |-> <<"?", "*">>, Dest |-> OUT] }

URL == <<"u">>
EXT == <<<<"e", ".", "z">>>>

Manifests ==
    {[wellFormed |-> FALSE, metadata |-> EmptyMetadata]} \cup
    {[wellFormed |-> TRUE,
      metadata |-> [ToothRepoPath |-> <<"a">>, AssetURL |-> u, Place |-> p]] :
        u \in {<<>>, URL}, p \in SeqsUpTo(ArchiveRuleSet, MaxPlace)}

InitArchive ==
    /\ pc = "open"
    /\ zipFile \in SeqsUpTo(EntryNames, MaxFiles)
    /\ toothJSONContent \in Manifests
    /\ assetArchiveFilePath \in {path_MakeEmpty, EXT}
    /\ r = "unopened"
    /\ toothJSONFileReader = "unopened"
    /\ deferStack = <<>>
    /\ closeLog = <<>>
    /\ filePaths = <<>>
    /\ filePathRoot = <<>>
    /\ toothJSONFile = 0
    /\ metadata = EmptyMetadata
    /\ archRet = [err |-> "none", archive |-> NoArchive]
    /\ placeRet = [err |-> "none", metadata |-> EmptyMetadata]
    /\ VersionsIdle /\ RegistryIdle

archiveInputs == <<zipFile, toothJSONContent, assetArchiveFilePath>>
otherVars == <<placeRet, versionVars, registryVars>>

\* return Archive{}, fmt.Errorf(...): the result is set, the deferred calls run next.
ReturnError(kind) ==
    /\ archRet' = [err |-> kind, archive |-> NoArchive]
    /\ pc' = "return"

\* Line 23, gozip.OpenReader succeeds; line 27 defers r.Close().
OpenReaderOk ==
    /\ pc = "open"
    /\ r' = "open"
    /\ deferStack' = pushDefer(deferStack, "r.Close")
    /\ pc' = "getFilePaths"
    /\ UNCHANGED <<archiveInputs, toothJSONFileReader, closeLog, filePaths, filePathRoot,
                   toothJSONFile, metadata, archRet, otherVars>>

\* Lines 24-26, gozip.OpenReader fails: nothing was opened.
OpenReaderFail ==
    /\ pc = "open"
    /\ ReturnError("ArchiveOpenError")
    /\ UNCHANGED <<archiveInputs, r, toothJSONFileReader, deferStack, closeLog, filePaths,
                   filePathRoot, toothJSONFile, metadata, otherVars>>

\* Lines 29-32.
GetFilePaths ==
    /\ pc = "getFilePaths"
    /\ LET res == zip_GetFilePaths(zipFile)
       IN  IF res.err
           THEN ReturnError("FilePathsError") /\ UNCHANGED filePaths
           ELSE filePaths' = res.paths /\ pc' = "root" /\ UNCHANGED archRet
    /\ UNCHANGED <<archiveInputs, r, toothJSONFileReader, deferStack, closeLog,
                   filePathRoot, toothJSONFile, metadata, otherVars>>

\* Lines 34-41.
ExtractRoot ==
    /\ pc = "root"
    /\ LET res == inferRoot(filePaths)
       IN  IF res.err
           THEN ReturnError("DirError") /\ UNCHANGED filePathRoot
           ELSE filePathRoot' = res.path /\ pc' = "find" /\ UNCHANGED archRet
    /\ UNCHANGED <<archiveInputs, r, toothJSONFileReader, deferStack, closeLog,
                   filePaths, toothJSONFile, metadata, otherVars>>

\* Lines 44-54.
FindToothJSON ==
    /\ pc = "find"
    /\ LET found == findToothJSON(zipFile, filePathRoot)
       IN  IF found = 0
           THEN ReturnError("ManifestNotFound") /\ UNCHANGED toothJSONFile
           ELSE toothJSONFile' = found /\ pc' = "openManifest" /\ UNCHANGED archRet
    /\ UNCHANGED <<archiveInputs, r, toothJSONFileReader, deferStack, closeLog,
                   filePaths, filePathRoot, metadata, otherVars>>

\* Line 57, toothJSONFile.Open() succeeds; line 61 defers the reader's Close().
OpenToothJSONOk ==
    /\ pc = "openManifest"
    /\ toothJSONFileReader' = "open"
    /\ deferStack' = pushDefer(deferStack, "toothJSONFileReader.Close")
    /\ pc' = "read"
    /\ UNCHANGED <<archiveInputs, r, closeLog, filePaths, filePathRoot, toothJSONFile,
                   metadata, archRet, otherVars>>

\* Lines 58-60, toothJSONFile.Open() fails.
OpenToothJSONFail ==
    /\ pc = "openManifest"
    /\ ReturnError("ManifestOpenError")
    /\ UNCHANGED <<archiveInputs, r, toothJSONFileReader, deferStack, closeLog, filePaths,
                   filePathRoot, toothJSONFile, metadata, otherVars>>

\* Line 63, io.ReadAll succeeds.
ReadAllOk ==
    /\ pc = "read"
    /\ pc' = "parse"
    /\ UNCHANGED <<archiveInputs, r, toothJSONFileReader, deferStack, closeLog, filePaths,
                   filePathRoot, toothJSONFile, metadata, archRet, otherVars>>

\* Lines 64-66, io.ReadAll fails.
ReadAllFail ==
    /\ pc = "read"
    /\ ReturnError("ManifestReadError")
    /\ UNCHANGED <<archiveInputs, r, toothJSONFileReader, deferStack, closeLog, filePaths,
                   filePathRoot, toothJSONFile, metadata, otherVars>>

\* Lines 69-72.
ParseToothJSON ==
    /\ pc = "parse"
    /\ LET res == MakeMetadata(toothJSONContent)
       IN  IF res.err
           THEN ReturnError("ManifestParseError") /\ UNCHANGED metadata
           ELSE metadata' = res.metadata /\ pc' = "validate" /\ UNCHANGED archRet
    /\ UNCHANGED <<archiveInputs, r, toothJSONFileReader, deferStack, closeLog,
                   filePaths, filePathRoot, toothJSONFile, otherVars>>

\* Lines 74-77.
ValidateAsset ==
    /\ pc = "validate"
    /\ IF assetMismatch(metadata, assetArchiveFilePath)
       THEN ReturnError("ConfigMismatch")
       ELSE pc' = "populate" /\ UNCHANGED archRet
    /\ UNCHANGED <<archiveInputs, r, toothJSONFileReader, deferStack, closeLog,
                   filePaths, filePathRoot, toothJSONFile, metadata, otherVars>>

\* Lines 79-99: the self-contained branch.
PopulateSelfContained ==
    /\ pc = "populate"
    /\ path_IsEmpty(assetArchiveFilePath)
    /\ LET res == populateMetadataFilePlaceWildcards(metadata,
                      filePathsTrimmed(filePaths, filePathRoot))
       IN  IF res.err # "nil"
           THEN ReturnError("PathParseError")
           ELSE /\ archRet' = [err |-> "nil",
                               archive |-> selfContainedArchive(res.metadata, filePathRoot)]
                /\ pc' = "return"
    /\ UNCHANGED <<archiveInputs, r, toothJSONFileReader, deferStack, closeLog,
                   filePaths, filePathRoot, toothJSONFile, metadata, otherVars>>

\* Lines 100-112: the external-asset branch.
PopulateExternal ==
    /\ pc = "populate"
    /\ ~path_IsEmpty(assetArchiveFilePath)
    /\ LET res == populateMetadataFilePlaceWildcards(metadata, filePaths)
       IN  IF res.err # "nil"
           THEN ReturnError("PathParseError")
           ELSE /\ archRet' = [err |-> "nil",
                               archive |-> externalArchive(res.metadata,
                                               assetArchiveFilePath, filePathRoot)]
                /\ pc' = "return"
    /\ UNCHANGED <<archiveInputs, r, toothJSONFileReader, deferStack, closeLog,
                   filePaths, filePathRoot, toothJSONFile, metadata, otherVars>>

\* The function returns: the deferred calls run, the last registered first.
RunDeferred ==
    /\ pc = "return"
    /\ deferStack # <<>>
    /\ LET call == Head(deferStack)
       IN  /\ closeLog' = Append(closeLog, call)
           /\ r' = IF call = "r.Close" THEN "closed" ELSE r
           /\ toothJSONFileReader' =
                  IF call = "toothJSONFileReader.Close" THEN "closed"
                  ELSE toothJSONFileReader
    /\ deferStack' = Tail(deferStack)
    /\ UNCHANGED <<pc, archiveInputs, filePaths, filePathRoot, toothJSONFile, metadata,
                   archRet, otherVars>>

\* No deferred call is left: the caller has the result.
Returned ==
    /\ pc = "return"
    /\ deferStack = <<>>
    /\ pc' = "done"
    /\ UNCHANGED <<archiveInputs, r, toothJSONFileReader, deferStack, closeLog, filePaths,
                   filePathRoot, toothJSONFile, metadata, archRet, otherVars>>

NextArchive ==
    \/ OpenReaderOk \/ OpenReaderFail \/ GetFilePaths \/ ExtractRoot \/ FindToothJSON
    \/ OpenToothJSONOk \/ OpenToothJSONFail \/ ReadAllOk \/ ReadAllFail
    \/ ParseToothJSON \/ ValidateAsset \/ PopulateSelfContained \/ PopulateExternal
    \/ RunDeferred \/ Returned

SpecArchive == InitArchive /\ [][NextArchive]_vars

(***************************************************************************)
(* Claims about MakeArchive.                                               *)
(***************************************************************************)
\* The candidate list the rules of a returned Archive were resolved against.
CandidatesOf(archive) ==
    IF path_IsEmpty(assetArchiveFilePath)
    THEN [i \in 1..Len(filePaths) |->
             path_TrimPrefix(filePaths[i], archive.assetArchiveFilePathRoot)]
    ELSE filePaths

Succeeded == pc = "done" /\ archRet.err = "nil"

\* C2 as stated: in every Archive returned, no rule's Src contains "*" and
\* every rule's Src names a path of the candidate file list.
C2_AsStated ==
    Succeeded =>
        LET place == archRet.archive.metadata.Place
            cands == CandidatesOf(archRet.archive)
        IN  \A k \in 1..Len(place) :
                /\ \A c \in 1..Len(place[k].Src) : place[k].Src[c] # "*"
                /\ \E i \in 1..Len(cands) : place[k].Src = path_String(cands[i])

\* C2 as amended: in every Archive returned, each rule is either a rule of
\* the manifest whose Src does not end in "*", kept as written, or a rule
\* whose Src names a path of the candidate file list.
C2_Amended ==
    Succeeded =>
        LET place == archRet.archive.metadata.Place
            cands == CandidatesOf(archRet.archive)
            raw == toothJSONContent.metadata.Place
        IN  \A k \in 1..Len(place) :
                \/ /\ \E j \in 1..Len(raw) : raw[j] = place[k]
                   /\ ~IsWildcard(place[k])
                \/ \E i \in 1..Len(cands) : place[k].Src = path_String(cands[i])

\* C2 witness: an Archive returned whose manifest held a wildcard rule that
\* was expanded into rules naming candidate paths.
C2_Witness ==
    /\ Succeeded
    /\ toothJSONContent.metadata.Place = <<[Src |-> <<"a", "/", "*">>, Dest |-> OUT]>>
    /\ zipFile = <<TOOTH_JSON, <<"a", "/", "x">>>>
    /\ archRet.archive.metadata.Place = <<[Src |-> <<"a", "/", "x">>,
                                          Dest |-> <<"o", "/", "x">>]>>

ExactlyOne(a, b) == (a /\ ~b) \/ (~a /\ b)

\* C3: once the manifest is located and parsed, MakeArchive fails with
\* ConfigMismatch if and only if exactly one of "AssetURL is non-empty" and
\* "the external asset archive path is non-empty" holds.
C3_ConfigMismatch ==
    (pc = "done" /\ archRet.err \in {"nil", "ConfigMismatch", "PathParseError"}) =>
        (archRet.err = "ConfigMismatch" <=>
            ExactlyOne(toothJSONContent.metadata.AssetURL # <<>>,
                       assetArchiveFilePath # <<>>))

\* C3 witness: a manifest with an AssetURL and no external archive path was
\* refused.
C3_Witness ==
    /\ pc = "done"
    /\ archRet.err = "ConfigMismatch"
    /\ toothJSONContent.metadata.AssetURL # <<>>
    /\ assetArchiveFilePath = <<>>

\* C4: every Archive returned is either external (AssetURL non-empty, the
\* asset archive path is the external path supplied, the root is empty) or
\* self-contained (AssetURL empty, the asset archive path is the archive's
\* own path, the root is the computed package root), never a mix.
C4_OneOfTwoCases ==
    Succeeded =>
        LET a == archRet.archive
            external == /\ a.metadata.AssetURL # <<>>
                        /\ assetArchiveFilePath # <<>>
                        /\ a.assetArchiveFilePath = assetArchiveFilePath
                        /\ a.assetArchiveFilePathRoot = <<>>
            selfContained == /\ a.metadata.AssetURL = <<>>
                             /\ assetArchiveFilePath = <<>>
                             /\ a.assetArchiveFilePath = archiveFilePath
                             /\ a.assetArchiveFilePathRoot = filePathRoot
        IN  /\ a.metadata.AssetURL = toothJSONContent.metadata.AssetURL
            /\ ExactlyOne(external, selfContained)

\* C4 witness: an external-asset Archive returned from a zip whose computed
\* root is not empty.
C4_Witness ==
    /\ Succeeded
    /\ assetArchiveFilePath = EXT
    /\ filePathRoot # <<>>
    /\ archRet.archive.assetArchiveFilePathRoot = <<>>

\* The entry paths of the zip, and the prefixes common to all of them.
EntryPaths == [i \in 1..Len(zipFile) |-> path_MustParse(zipFile[i])]

IsCommonPrefix(p) ==
    \A i \in 1..Len(zipFile) :
        /\ Len(p) <= Len(EntryPaths[i])
        /\ \A k \in 1..Len(p) : EntryPaths[i][k] = p[k]

PrefixesOf(p) == {SubSeq(p, 1, n) : n \in 0..Len(p)}

ExpectedRoot ==
    IF Len(zipFile) = 1
    THEN SubSeq(EntryPaths[1], 1, Len(EntryPaths[1]) - 1)
    ELSE CHOOSE p \in PrefixesOf(EntryPaths[1]) :
             /\ IsCommonPrefix(p)
             /\ \A q \in PrefixesOf(EntryPaths[1]) : IsCommonPrefix(q) => Len(q) <= Len(p)

ExpectedManifestName ==
    IF ExpectedRoot = <<>> THEN TOOTH_JSON
    ELSE path_String(ExpectedRoot) \o <<"/">> \o TOOTH_JSON

\* C5: with two or more entries the root is the longest common path prefix
\* of all entry paths, with exactly one entry it is the parent directory of
\* that entry; and once the root is inferred MakeArchive fails with
\* ManifestNotFound exactly when no entry is named root/tooth.json, wherever
\* else a tooth.json may be.
C5_RootAndManifest ==
    (pc = "done" /\ Len(zipFile) >= 1
        /\ archRet.err \notin {"ArchiveOpenError", "FilePathsError", "DirError"}) =>
        /\ filePathRoot = ExpectedRoot
        /\ archRet.err = "ManifestNotFound" <=>
               \A i \in 1..Len(zipFile) : zipFile[i] # ExpectedManifestName

\* C5 witness: a single entry a/tooth.json gave the root a and the manifest
\* was found.
C5_Witness ==
    /\ pc = "done"
    /\ zipFile = <<<<"a", "/", "tooth.json">>>>
    /\ filePathRoot = <<<<"a">>>>
    /\ toothJSONFile = 1

\* C10: when MakeArchive has returned, on the success path and on every
\* error path, the zip handle is closed if it was opened, the manifest
\* reader is closed if it was opened, the reader was closed before the
\* handle, and the reader is never open while the handle is not.
C10_ResourcesReleased ==
    /\ toothJSONFileReader = "open" => r = "open"
    /\ pc = "done" =>
        /\ deferStack = <<>>
        /\ r = (IF archRet.err = "ArchiveOpenError" THEN "unopened" ELSE "closed")
        /\ toothJSONFileReader =
               (IF archRet.err \in {"ArchiveOpenError", "FilePathsError", "DirError",
                                    "ManifestNotFound", "ManifestOpenError"}
                THEN "unopened" ELSE "closed")
        /\ closeLog = (IF r = "unopened" THEN <<>>
                       ELSE IF toothJSONFileReader = "unopened" THEN <<"r.Close">>
                       ELSE <<"toothJSONFileReader.Close", "r.Close">>)

\* C10 witness: an error return (ConfigMismatch) after both resources were
\* opened, with both closed, the reader first.
C10_Witness ==
    /\ pc = "done"
    /\ archRet.err = "ConfigMismatch"
    /\ closeLog = <<"toothJSONFileReader.Close", "r.Close">>

(***************************************************************************)
(* Characters in byte order, for Go's comparison of strings.               *)
(***************************************************************************)
ByteOrder ==
    <<" ", "+", "-", ".", "0", "1", "2", "3", "4", "5", "6", "7", "8", "9",
      "A", "B", "LONG", "a", "b", "c", "e", "i", "l", "m", "n", "o", "p", "r",
      "t", "v", "x">>

Code(c) == CHOOSE i \in 1..Len(ByteOrder) : ByteOrder[i] = c

\* s < t on Go strings: byte-wise lexicographic.
RECURSIVE stringLess(_, _)
stringLess(s, t) ==
    IF Len(t) = 0 THEN FALSE
    ELSE IF Len(s) = 0 THEN TRUE
    ELSE IF s[1] # t[1] THEN Code(s[1]) < Code(t[1])
    ELSE stringLess(Tail(s), Tail(t))

numbers == {"0", "1", "2", "3", "4", "5", "6", "7", "8", "9"}
alphanum == numbers \cup {"A", "B", "a", "b", "c", "e", "i", "l", "m", "n", "o", "p",
                          "r", "t", "v", "x", "-"}

containsOnly(s, set) == \A i \in 1..Len(s) : s[i] \in set

hasLeadingZeroes(s) == Len(s) > 1 /\ s[1] = "0"

DigitValue(c) == Code(c) - Code("0")

RECURSIVE ParseUint(_)
ParseUint(s) ==
    IF Len(s) = 0 THEN 0
    ELSE ParseUint(SubSeq(s, 1, Len(s) - 1)) * 10 + DigitValue(s[Len(s)])

\* strings.IndexRune: the first index of c in s, 0 when there is none.
IndexRune(s, c) ==
    IF \A i \in 1..Len(s) : s[i] # c THEN 0
    ELSE CHOOSE i \in 1..Len(s) : s[i] = c /\ \A j \in 1..(i - 1) : s[j] # c

(***************************************************************************)
(* github.com/blang/semver/v4 as GetAvailableVersions uses it: Parse, the  *)
(* precedence Compare and Sort.                                            *)
(***************************************************************************)
NoVersion == [Major |-> 0, Minor |-> 0, Patch |-> 0, Pre |-> <<>>, Build |-> <<>>]

validNumber(s) == Len(s) > 0 /\ containsOnly(s, numbers) /\ ~hasLeadingZeroes(s)

\* NewPRVersion: a numeric identifier without leading zeroes or an
\* alphanumeric one.
validPR(s) ==
    /\ Len(s) > 0
    /\ IF containsOnly(s, numbers) THEN ~hasLeadingZeroes(s) ELSE containsOnly(s, alphanum)

NewPRVersion(s) ==
    IF containsOnly(s, numbers)
    THEN [IsNum |-> TRUE, VersionNum |-> ParseUint(s), VersionStr |-> <<>>]
    ELSE [IsNum |-> FALSE, VersionNum |-> 0, VersionStr |-> s]

validBuild(s) == Len(s) > 0 /\ containsOnly(s, alphanum)

semver_Parse(s) ==
    LET parts == strings_SplitN(s, ".", 3)
    IN  IF Len(s) = 0 \/ Len(parts) # 3 THEN [err |-> TRUE, version |-> NoVersion]
        ELSE
        LET rest == parts[3]
            buildIndex == IndexRune(rest, "+")
            build == IF buildIndex = 0 THEN <<>>
                     ELSE strings_Split(SubSeq(rest, buildIndex + 1, Len(rest)), ".")
            noBuild == IF buildIndex = 0 THEN rest ELSE SubSeq(rest, 1, buildIndex - 1)
            preIndex == IndexRune(noBuild, "-")
            prerelease == IF preIndex = 0 THEN <<>>
                          ELSE strings_Split(SubSeq(noBuild, preIndex + 1, Len(noBuild)), ".")
            patchStr == IF preIndex = 0 THEN noBuild ELSE SubSeq(noBuild, 1, preIndex - 1)
        IN  IF /\ validNumber(parts[1])
               /\ validNumber(parts[2])
               /\ validNumber(patchStr)
               /\ \A i \in 1..Len(prerelease) : validPR(prerelease[i])
               /\ \A i \in 1..Len(build) : validBuild(build[i])
            THEN [err |-> FALSE,
                  version |-> [Major |-> ParseUint(parts[1]),
                               Minor |-> ParseUint(parts[2]),
                               Patch |-> ParseUint(patchStr),
                               Pre |-> [i \in 1..Len(prerelease) |->
                                           NewPRVersion(prerelease[i])],
                               Build |-> build]]
            ELSE [err |-> TRUE, version |-> NoVersion]

\* PRVersion.Compare: -1, 0 or 1.
comparePR(v, o) ==
    IF v.IsNum /\ ~o.IsNum THEN -1
    ELSE IF ~v.IsNum /\ o.IsNum THEN 1
    ELSE IF v.IsNum /\ o.IsNum
         THEN (IF v.VersionNum = o.VersionNum THEN 0
               ELSE IF v.VersionNum > o.VersionNum THEN 1 ELSE -1)
    ELSE IF v.VersionStr = o.VersionStr THEN 0
    ELSE IF stringLess(o.VersionStr, v.VersionStr) THEN 1 ELSE -1

RECURSIVE comparePre(_, _, _)
comparePre(vPre, oPre, i) ==
    IF i <= Len(vPre) /\ i <= Len(oPre)
    THEN (IF comparePR(vPre[i], oPre[i]) = 0 THEN comparePre(vPre, oPre, i + 1)
          ELSE comparePR(vPre[i], oPre[i]))
    ELSE IF i > Len(vPre) /\ i > Len(oPre) THEN 0
    ELSE IF i > Len(vPre) THEN -1
    ELSE 1

\* Version.Compare: -1, 0 or 1; build metadata is ignored.
semver_Compare(v, o) ==
    IF v.Major # o.Major THEN (IF v.Major > o.Major THEN 1 ELSE -1)
    ELSE IF v.Minor # o.Minor THEN (IF v.Minor > o.Minor THEN 1 ELSE -1)
    ELSE IF v.Patch # o.Patch THEN (IF v.Patch > o.Patch THEN 1 ELSE -1)
    ELSE IF Len(v.Pre) = 0 /\ Len(o.Pre) = 0 THEN 0
    ELSE IF Len(v.Pre) = 0 THEN 1
    ELSE IF Len(o.Pre) = 0 THEN -1
    ELSE comparePre(v.Pre, o.Pre, 1)

swap(data, i, j) == [data EXCEPT ![i] = data[j], ![j] = data[i]]

\* sort.Sort on a short slice is an insertion sort: element j moves down
\* while it is less than the one before it.
RECURSIVE versionsSink(_, _)
versionsSink(data, j) ==
    IF j > 1 /\ semver_Compare(data[j], data[j - 1]) = -1
    THEN versionsSink(swap(data, j, j - 1), j - 1)
    ELSE data

RECURSIVE versionsInsertionSort(_, _)
versionsInsertionSort(data, i) ==
    IF i > Len(data) THEN data
    ELSE versionsInsertionSort(versionsSink(data, i), i + 1)

semver_Sort(versions) == versionsInsertionSort(versions, 2)

(***************************************************************************)
(* GetAvailableVersions, utils.go:97-143, and GetLatestStableVersion,      *)
(* utils.go:147-163.                                                       *)
(***************************************************************************)
\* bufio.MaxScanTokenSize: a line of that many bytes or more does not fit
\* the scanner's buffer, and Scan returns false.
MaxScanTokenSize == 65536

Width(c) == IF c = "LONG" THEN MaxScanTokenSize ELSE 1

RECURSIVE ByteLen(_)
ByteLen(s) == IF Len(s) = 0 THEN 0 ELSE Width(s[1]) + ByteLen(Tail(s))

tokenTooLong(line) == ByteLen(line) >= MaxScanTokenSize

INCOMPATIBLE == <<"+", "i", "n", "c", "o", "m", "p", "a", "t", "i", "b", "l", "e">>

\* Lines 125-128: what one line parses to.
parseLine(versionString) ==
    semver_Parse(strings_TrimSuffix(strings_TrimPrefix(versionString, <<"v">>),
                                    INCOMPATIBLE))

\* Lines 138-140.
reverse(list) == [i \in 1..Len(list) |-> list[Len(list) + 1 - i]]

\* C7 mutant: the first version of the list, pre-release or not.
firstStable_First(list) ==
    IF Len(list) = 0 THEN [err |-> "NoStableVersion", version |-> NoVersion]
    ELSE [err |-> "nil", version |-> list[1]]

\* Lines 156-162: the first version of the list without a pre-release part.
firstStable(list) ==
    LET stable == {i \in 1..Len(list) : Len(list[i].Pre) = 0}
    IN  IF stable = {} THEN [err |-> "NoStableVersion", version |-> NoVersion]
        ELSE [err |-> "nil", version |-> list[CHOOSE i \in stable : \A j \in stable : i <= j]]

LineSet ==
    { <<"v", "1", ".", "2", ".", "3">>,
      <<"2", ".", "0", ".", "0">> \o INCOMPATIBLE,
      <<"x">>,
      <<"v", "1", ".", "3", ".", "0", "-", "r", "c", "1">>,
      <<"v", "1", ".", "3", ".", "0", "-", "r", "c", ".", "2">>,
      <<"1", ".", "3", ".", "0", "-", "1">>,
      <<"v", "v", "1", ".", "2", ".", "3">>,
      <<"1", ".", "2", ".", "3", "+", "b">>,
      <<"LONG">> }

InitVersions ==
    /\ pc = "fetch"
    /\ content \in SeqsUpTo(LineSet, MaxLines)
    /\ scanPos = 0
    /\ versionList = <<>>
    /\ versionsRet = [err |-> "none", versions |-> <<>>]
    /\ stableRet = [err |-> "none", version |-> NoVersion]
    /\ filePaths = <<>>
    /\ metadata = EmptyMetadata
    /\ placeRet = [err |-> "none", metadata |-> EmptyMetadata]
    /\ ArchiveIdle /\ RegistryIdle

notVersionVars == <<archiveVars, filePaths, metadata, placeRet, registryVars>>

\* Lines 100-117 succeed: the repository path is valid and the response is fetched.
FetchOk ==
    /\ pc = "fetch"
    /\ pc' = "scan"
    /\ UNCHANGED <<versionVars, notVersionVars>>

\* Lines 100-117 fail: an invalid repository path, no proxy URL, no version
\* list URL, or a failed fetch.
FetchFail ==
    /\ pc = "fetch"
    /\ \E kind \in {"InvalidRepoPath", "ProxyURLError", "URLError", "FetchError"} :
           versionsRet' = [err |-> kind, versions |-> <<>>]
    /\ pc' = "versionsReturned"
    /\ UNCHANGED <<content, scanPos, versionList, stableRet, notVersionVars>>

\* Lines 124-133, one turn of the loop: scanner.Scan() yields the next line,
\* which is appended when it parses and skipped when it does not.
ScanLine ==
    /\ pc = "scan"
    /\ scanPos < Len(content)
    /\ ~tokenTooLong(content[scanPos + 1])
    /\ LET parsed == parseLine(content[scanPos + 1])
       IN  versionList' = IF parsed.err THEN versionList
                          ELSE Append(versionList, parsed.version)
    /\ scanPos' = scanPos + 1
    /\ UNCHANGED <<pc, content, versionsRet, stableRet, notVersionVars>>

\* Line 124, scanner.Scan() returns false: at the end of the response, or at
\* a line that does not fit the buffer (scanner.Err() is not looked at).
\* Lines 135-142: sort, reverse, return.
ScanEnds ==
    /\ pc = "scan"
    /\ IF scanPos = Len(content) THEN TRUE ELSE tokenTooLong(content[scanPos + 1])
    /\ versionsRet' = [err |-> "nil", versions |-> reverse(semver_Sort(versionList))]
    /\ pc' = "versionsReturned"
    /\ UNCHANGED <<content, scanPos, versionList, stableRet, notVersionVars>>

\* Lines 150-162 of GetLatestStableVersion, after GetAvailableVersions returned.
LatestStable ==
    /\ pc = "versionsReturned"
    /\ stableRet' = IF versionsRet.err # "nil"
                    THEN [err |-> "VersionListError", version |-> NoVersion]
                    ELSE firstStable(versionsRet.versions)
    /\ pc' = "stableReturned"
    /\ UNCHANGED <<content, scanPos, versionList, versionsRet, notVersionVars>>

NextVersions == FetchOk \/ FetchFail \/ ScanLine \/ ScanEnds \/ LatestStable

SpecVersions == InitVersions /\ [][NextVersions]_vars

(***************************************************************************)
(* Claims about version resolution.                                        *)
(***************************************************************************)
\* The versions the lines of the response parse to, in response order.
RECURSIVE ParsedLines(_)
ParsedLines(lines) ==
    IF Len(lines) = 0 THEN <<>>
    ELSE (IF parseLine(lines[1]).err THEN <<>> ELSE <<parseLine(lines[1]).version>>)
         \o ParsedLines(Tail(lines))

Count(seq, x) == Cardinality({i \in 1..Len(seq) : seq[i] = x})

SameMultiset(s, t) ==
    /\ Len(s) = Len(t)
    /\ \A i \in 1..Len(s) : Count(s, s[i]) = Count(t, s[i])

Descending(list) ==
    \A i \in 1..(Len(list) - 1) : semver_Compare(list[i], list[i + 1]) >= 0

VersionsFetched == pc \in {"versionsReturned", "stableReturned"} /\ versionsRet.err = "nil"

\* C6: once the fetch succeeds, GetAvailableVersions returns exactly the
\* multiset of the versions the response lines parse to (after one leading
\* "v" and one trailing "+incompatible" are stripped), lines that do not
\* parse being skipped, in descending order of precedence.
C6_AsStated ==
    VersionsFetched =>
        /\ SameMultiset(versionsRet.versions, ParsedLines(content))
        /\ Descending(versionsRet.versions)

\* C6 within the scanner's limit: the same, for responses whose lines are
\* all shorter than MaxScanTokenSize.
C6_WithinScannerLimit ==
    (VersionsFetched /\ \A i \in 1..Len(content) : ~tokenTooLong(content[i])) =>
        /\ SameMultiset(versionsRet.versions, ParsedLines(content))
        /\ Descending(versionsRet.versions)

\* C7: GetLatestStableVersion returns the first entry of the descending
\* version list that has no pre-release part, and fails with NoStableVersion
\* if and only if the list has no such entry (an empty list, or pre-releases
\* only).
C7_LatestStable ==
    (pc = "stableReturned" /\ versionsRet.err = "nil") =>
        LET list == versionsRet.versions
        IN  /\ stableRet.err \in {"nil", "NoStableVersion"}
            /\ stableRet.err = "NoStableVersion" <=>
                   \A i \in 1..Len(list) : list[i].Pre # <<>>
            /\ stableRet.err = "nil" =>
                   \E i \in 1..Len(list) :
                       /\ list[i] = stableRet.version
                       /\ list[i].Pre = <<>>
                       /\ \A j \in 1..(i - 1) : list[j].Pre # <<>>

\* C7 witness: the list starts with a pre-release and the stable version
\* after it is returned.
C7_Witness ==
    /\ pc = "stableReturned"
    /\ Len(versionsRet.versions) = 3
    /\ versionsRet.versions[1].Pre # <<>>
    /\ versionsRet.versions[2].Pre # <<>>
    /\ stableRet.err = "nil"
    /\ stableRet.version = versionsRet.versions[3]

(***************************************************************************)
(* GetAllMetadata, utils.go:38-73.                                         *)
(***************************************************************************)
toLowerChar(c) == IF c = "A" THEN "a" ELSE IF c = "B" THEN "b" ELSE c

strings_ToLower(s) == [i \in 1..Len(s) |-> toLowerChar(s[i])]

\* C9 mutant: the comparison without strings.ToLower.
lessToothRepoPath_CaseSensitive(a, b) == stringLess(a.ToothRepoPath, b.ToothRepoPath)

\* Lines 67-70: the less function handed to sort.Slice.
lessToothRepoPath(a, b) ==
    stringLess(strings_ToLower(a.ToothRepoPath), strings_ToLower(b.ToothRepoPath))

\* sort.Slice on a short slice is an insertion sort.
RECURSIVE metadataSink(_, _)
metadataSink(data, j) ==
    IF j > 1 /\ lessToothRepoPath(data[j], data[j - 1])
    THEN metadataSink(swap(data, j, j - 1), j - 1)
    ELSE data

RECURSIVE metadataInsertionSort(_, _)
metadataInsertionSort(data, i) ==
    IF i > Len(data) THEN data
    ELSE metadataInsertionSort(metadataSink(data, i), i + 1)

sort_Slice(list) == metadataInsertionSort(list, 2)

\* C8 mutant: a file that does not parse is skipped.
readAndParse_SkipMalformed(list, file) ==
    IF ~file.readable THEN [err |-> "ReadError", list |-> <<>>]
    ELSE IF MakeMetadata(file.bytes).err THEN [err |-> "nil", list |-> list]
    ELSE [err |-> "nil", list |-> Append(list, MakeMetadata(file.bytes).metadata)]

\* Lines 52-62, the body of the loop: read the file, parse it, append.
readAndParse(list, file) ==
    IF ~file.readable THEN [err |-> "ReadError", list |-> <<>>]
    ELSE IF MakeMetadata(file.bytes).err THEN [err |-> "ManifestParseError", list |-> <<>>]
    ELSE [err |-> "nil", list |-> Append(list, MakeMetadata(file.bytes).metadata)]

ToothRepoPaths == {<<"a">>, <<"A">>, <<"b">>, <<"B">>, <<"a", "b">>, <<"A", "b">>}

Malformed == [wellFormed |-> FALSE, metadata |-> EmptyMetadata]

StoredFiles ==
    {[readable |-> FALSE, bytes |-> Malformed], [readable |-> TRUE, bytes |-> Malformed]}
    \cup {[readable |-> TRUE,
           bytes |-> [wellFormed |-> TRUE,
                      metadata |-> [ToothRepoPath |-> t, AssetURL |-> <<>>, Place |-> <<>>]]] :
             t \in ToothRepoPaths}

InitRegistry ==
    /\ pc = "list"
    /\ metadataDir \in SeqsUpTo(StoredFiles, MaxStored)
    /\ fileIdx = 0
    /\ metadataList = <<>>
    /\ parseFailed = FALSE
    /\ listRet = [err |-> "none", list |-> <<>>]
    /\ prevListRet = [err |-> "none", list |-> <<>>]
    /\ filePaths = <<>>
    /\ metadata = EmptyMetadata
    /\ placeRet = [err |-> "none", metadata |-> EmptyMetadata]
    /\ ArchiveIdle /\ VersionsIdle

notRegistryVars == <<archiveVars, filePaths, metadata, placeRet, versionVars>>

\* Lines 39-49 succeed: the directory is known and globbed.
ListStartOk ==
    /\ pc = "list"
    /\ pc' = "loop"
    /\ UNCHANGED <<registryVars, notRegistryVars>>

\* Lines 41-49 fail: no metadata directory, or the glob fails.
ListStartFail ==
    /\ pc = "list"
    /\ \E kind \in {"MetadataDirError", "GlobError"} :
           listRet' = [err |-> kind, list |-> <<>>]
    /\ pc' = "listReturned"
    /\ UNCHANGED <<metadataDir, fileIdx, metadataList, parseFailed, prevListRet,
                   notRegistryVars>>

\* Lines 51-63, one turn of the loop.
LoopFile ==
    /\ pc = "loop"
    /\ fileIdx < Len(metadataDir)
    /\ LET res == readAndParse(metadataList, metadataDir[fileIdx + 1])
       IN  IF res.err # "nil"
           THEN /\ listRet' = [err |-> res.err, list |-> <<>>]
                /\ pc' = "listReturned"
                /\ UNCHANGED metadataList
           ELSE /\ metadataList' = res.list
                /\ UNCHANGED <<pc, listRet>>
    /\ parseFailed' = (metadataDir[fileIdx + 1].readable
                          /\ MakeMetadata(metadataDir[fileIdx + 1].bytes).err)
    /\ fileIdx' = fileIdx + 1
    /\ UNCHANGED <<metadataDir, prevListRet, notRegistryVars>>

\* Lines 65-72: sort and return.
SortAndReturn ==
    /\ pc = "loop"
    /\ fileIdx = Len(metadataDir)
    /\ listRet' = [err |-> "nil", list |-> sort_Slice(metadataList)]
    /\ pc' = "listReturned"
    /\ UNCHANGED <<metadataDir, fileIdx, metadataList, parseFailed, prevListRet,
                   notRegistryVars>>

\* GetAllMetadata is called a second time, the storage unchanged.
CallAgain ==
    /\ pc = "listReturned"
    /\ prevListRet.err = "none"
    /\ prevListRet' = listRet
    /\ listRet' = [err |-> "none", list |-> <<>>]
    /\ metadataList' = <<>>
    /\ fileIdx' = 0
    /\ parseFailed' = FALSE
    /\ pc' = "list"
    /\ UNCHANGED <<metadataDir, notRegistryVars>>

NextRegistry == ListStartOk \/ ListStartFail \/ LoopFile \/ SortAndReturn \/ CallAgain

SpecRegistry == InitRegistry /\ [][NextRegistry]_vars

(***************************************************************************)
(* Claims about the registry.                                              *)
(***************************************************************************)
IsMalformed(file) == file.readable /\ ~file.bytes.wellFormed

\* C8: when a persisted manifest file fails to parse, the listing is aborted
\* with ManifestParseError and no list, partial or not, is returned, however
\* many other files parse and wherever the bad file is in the scan order: a
\* directory that is read without failure and holds a file that does not
\* parse never yields a list.
C8_FailFast ==
    pc = "listReturned" =>
        /\ parseFailed => (listRet.err = "ManifestParseError" /\ listRet.list = <<>>)
        /\ (/\ listRet.err \notin {"MetadataDirError", "GlobError"}
            /\ \A i \in 1..Len(metadataDir) : metadataDir[i].readable
            /\ \E i \in 1..Len(metadataDir) : IsMalformed(metadataDir[i]))
               => (listRet.err = "ManifestParseError" /\ listRet.list = <<>>)
        /\ (\E i \in 1..Len(metadataDir) : IsMalformed(metadataDir[i]))
               => (listRet.err # "nil" /\ listRet.list = <<>>)

\* C8 witness: two files were parsed and collected, the third and last did
\* not parse, and the listing returned ManifestParseError and no list.
C8_Witness ==
    /\ pc = "listReturned"
    /\ Len(metadataDir) = 3
    /\ Len(metadataList) = 2
    /\ IsMalformed(metadataDir[3])
    /\ listRet = [err |-> "ManifestParseError", list |-> <<>>]

StoredMetadata == [i \in 1..Len(metadataDir) |-> metadataDir[i].bytes.metadata]

====
